---- MODULE Spec2Model ----
(***************************************************************************)
(* State-machine model of the library back end: the book-loan lifecycle    *)
(* (BookRequestViewSet.create / partial_update), the inventory counter of  *)
(* Book, the ticket lifecycle (TicketViewSet) with the mails it queues,    *)
(* and the permission predicates of permissions.py that gate them.         *)
(***************************************************************************)
EXTENDS Integers, Sequences, FiniteSets, TLC

VARIABLES
    user_role,   \* User.role (many-to-many): user pk -> set of Role pks
    role_rows,   \* Role table: pk -> value of the `role` column
    inventory,   \* Book.inventory: book pk -> integer
    requests,    \* BookRequest table: pk -> row
    today,       \* the date datetime.now() yields
    response,    \* the call handled last and the Response it returned
    tickets,     \* Ticket table: pk -> row
    mails,       \* the send_mail_task messages queued by apply_async
    calls        \* handlers in flight: the position and the locals of each

vars == <<user_role, role_rows, inventory, requests, today, response,
          tickets, mails, calls>>

\* the accounts, the books, the loans and the clock
db == <<user_role, role_rows, inventory, requests, today>>

\* the tickets and the queue of mails
ticket_vars == <<tickets, mails>>

----------------------------------------------------------------------------
(* Bounds of the model *)

MaxRequests == 2      \* rows of BookRequest in Spec
MaxExtraRequests == 1 \* rows of BookRequest beyond LoanLimit in SpecLimit
MaxDatedRequests == 1 \* rows of BookRequest in SpecDates
MaxStock == 1         \* Book.inventory of every book at the start
MaxDay == 2           \* last day of the clock in SpecDates
MaxNewRows == 1       \* Role rows and librarian accounts added in SpecAdmin
MaxTickets == 1       \* rows of Ticket in SpecTickets
MaxMails == 2         \* messages in the mail queue in SpecTickets
MaxCalls == 2         \* UpdateLoanStatus handlers running at once in SpecConc
MaxConcRequests == 1  \* rows of BookRequest in SpecConc
MaxStaleRequests == 2 \* rows of BookRequest in SpecStale

----------------------------------------------------------------------------
(* models.py: the enumerations *)

Roles_USER == 1
Roles_LIBRARIAN == 2
Roles_ADMIN == 3
Roles == {Roles_USER, Roles_LIBRARIAN, Roles_ADMIN}

PENDING == "pending"
REJECTED_as_pending == "pending"

REJECTED == "rejected"
ISSUED == "issued"
RETURNED == "returned"
RequestStatus == {PENDING, REJECTED, ISSUED, RETURNED}

TicketStatus_PENDING == "pending"
TicketStatus_REJECTED == "rejected"
TicketStatus_ACCEPTED == "accepted"
TicketStatus == {TicketStatus_PENDING, TicketStatus_REJECTED,
                 TicketStatus_ACCEPTED}

None == << >>             \* a NULL column / a key absent from request.data
Date(d) == <<d>>          \* a DateField holding day d
NoStatus == "None"        \* request.data.get("status") when the key is absent

Anonymous == 0            \* request.user of an unauthenticated call
Books == {1, 2}           \* pks of the Book rows
BookInputs == Books \cup {Cardinality(Books) + 1}  \* and a pk with no Book row

\* The accounts at the start: 1 a plain user, 2 a user who is also a
\* librarian, 3 a librarian, 4 an admin.
InitUserRole == << {Roles_USER}, {Roles_USER, Roles_LIBRARIAN},
                   {Roles_LIBRARIAN}, {Roles_ADMIN} >>
\* Role rows 1..3 hold the three roles; a deleted row leaves None behind.
InitRoleRows == << <<Roles_USER>>, <<Roles_LIBRARIAN>>, <<Roles_ADMIN>> >>

\* The request handlers that can be in flight at once, and the record of one
\* that is not running.
Procs == 1..MaxCalls
NoBook == [id |-> 0, inventory |-> 0]
Idle == [pc |-> "idle", request_id |-> 0, status_ |-> "None", book |-> NoBook]

UserIds == 1..Len(user_role)
Callers == UserIds \cup {Anonymous}

is_authenticated(user) == user # Anonymous

\* User.has_role: self.role.filter(pk=id).exists()
has_role(user, id) == id \in user_role[user]

----------------------------------------------------------------------------
(* permissions.py *)

PyTrue == "True"
PyFalse == "False"
IsAdminUserClass == "class IsAdminUser"
\* Python truthiness of a value returned by has_permission
Truthy(v) == v # PyFalse
PyBool(b) == IF b THEN PyTrue ELSE PyFalse
\* Python `a or b`: a when a is truthy, else b
PyOr(a, b) == IF Truthy(a) THEN a ELSE b

IsAdmin_has_permission(user) ==
    PyOr(PyBool(is_authenticated(user) /\ has_role(user, Roles_ADMIN)),
         IsAdminUserClass)

RequestPermission_has_permission(user, action) ==
    IF action \in {"list", "retrieve", "partial_update"}
    THEN is_authenticated(user)
         /\ (has_role(user, Roles_USER) \/ has_role(user, Roles_LIBRARIAN))
    ELSE is_authenticated(user) /\ has_role(user, Roles_USER)

----------------------------------------------------------------------------
(* Responses *)

\* Response(data, status=code)
Response(msg, code) == [code |-> code, msg |-> msg]

NoCall == Response("", 0)

\* APIView.permission_denied: NotAuthenticated (401 or 403, by the first
\* authenticator's header) for an unauthenticated call, else PermissionDenied.
DeniedCodes(user) == IF is_authenticated(user) THEN {403} ELSE {401, 403}

Denied(caller) ==
    /\ \E code \in DeniedCodes(caller):
          response' = Response("permission denied", code)
    /\ UNCHANGED db

\* An exception leaving the handler: the call has no effect.
ServerError ==
    /\ response' = Response("server error", 500)
    /\ UNCHANGED db

----------------------------------------------------------------------------
(* views.py: BookRequestViewSet *)

RequestIds == 1..Len(requests)

\* BookRequest.objects.filter(Q(user=user) & Q(status=RequestStatus.ISSUED))
user_issued_books(user) ==
    {i \in RequestIds: requests[i].user = user /\ requests[i].status = ISSUED}

LoanLimit == 3

\* len(user_issued_books) >= 3
over_limit_off_by_one(user) == Cardinality(user_issued_books(user)) > LoanLimit

over_limit(user) == Cardinality(user_issued_books(user)) >= LoanLimit

not_available_strict(book) == inventory[book] < 0

not_available(book) == inventory[book] <= 0

new_request_issued(book, user) ==
    [book |-> book, user |-> user, requested_date |-> Date(today),
     status |-> ISSUED, issued_date |-> Date(today), returned_date |-> None]

new_request(book, user) ==
    [book |-> book, user |-> user, requested_date |-> Date(today),
     status |-> PENDING, issued_date |-> None, returned_date |-> None]

\* The handler body; `user` is request.user, past the permission check.
BookRequestViewSet_create(user, book_id, dispatched) ==
    IF book_id \notin Books               \* Book.objects.get raises DoesNotExist
    THEN ServerError
    ELSE IF over_limit(user)
    THEN /\ response' = Response("You have already requested 3 books", 403)
         /\ UNCHANGED db
    ELSE IF not_available(book_id)
    THEN /\ response' = Response("The book is not available", 403)
         /\ UNCHANGED db
    ELSE IF ~dispatched                   \* send_request_book_mail raises
    THEN ServerError
    ELSE /\ response' = Response("created", 201)
         /\ requests' = Append(requests, new_request(book_id, user))
         /\ UNCHANGED <<user_role, role_rows, inventory, today>>

\* BookRequest.objects.filter(pk=request_id).update(**fields)
update_request(request_id, fields) ==
    [i \in RequestIds |->
        IF i = request_id THEN fields @@ requests[i] ELSE requests[i]]

\* Book.objects.filter(id=book.id).update(inventory=F("inventory") + delta)
update_inventory_unfiltered(book, delta) ==
    [b \in Books |-> inventory[b] + delta]

update_inventory(book, delta) ==
    [b \in Books |-> IF b = book THEN inventory[b] + delta ELSE inventory[b]]

issue_fields_returned_date == [returned_date |-> Date(today), status |-> ISSUED]

issue_fields == [issued_date |-> Date(today), status |-> ISSUED]
reject_fields == [status |-> REJECTED]
return_fields == [returned_date |-> Date(today), status |-> RETURNED]

\* The handler body: it never looks at request.user.
BookRequestViewSet_partial_update(request_id, status_) ==
    IF status_ = ISSUED
    THEN IF request_id \notin RequestIds
         THEN ServerError
         ELSE /\ response' = Response("Book issued", 202)
              /\ requests' = update_request(request_id, issue_fields)
              /\ inventory' = update_inventory(requests[request_id].book, -1)
              /\ UNCHANGED <<user_role, role_rows, today>>
    ELSE IF status_ = REJECTED
    THEN /\ response' = Response("Request book rejected", 202)
         /\ requests' = update_request(request_id, reject_fields)
         /\ UNCHANGED <<user_role, role_rows, inventory, today>>
    ELSE IF status_ = RETURNED
    THEN IF request_id \notin RequestIds
         THEN ServerError
         ELSE /\ response' = Response("Request returned", 202)
              /\ requests' = update_request(request_id, return_fields)
              /\ inventory' = update_inventory(requests[request_id].book, 1)
              /\ UNCHANGED <<user_role, role_rows, today>>
    ELSE /\ response' = Response("Request status is not valid", 403)
         /\ UNCHANGED db

\* APIView.initial runs permission_classes = [RequestPermission] before the
\* handler of the action.
RequestLoanCall(caller, book_id, dispatched) ==
    IF ~RequestPermission_has_permission(caller, "create")
    THEN Denied(caller)
    ELSE BookRequestViewSet_create(caller, book_id, dispatched)

UpdateLoanStatusCall(caller, request_id, status_) ==
    IF ~RequestPermission_has_permission(caller, "partial_update")
    THEN Denied(caller)
    ELSE BookRequestViewSet_partial_update(request_id, status_)

\* The clock: datetime.now() moves on between calls.
Tick ==
    /\ today' = today + 1
    /\ UNCHANGED <<user_role, role_rows, inventory, requests, response>>


----------------------------------------------------------------------------
(* views.py: BookRequestViewSet.partial_update, one statement at a time.    *)
(* Each statement is its own database round trip (autocommit); handlers of *)
(* other calls run between them.  calls[p] holds the handler's position    *)
(* and its locals request_id, status_ and book.                            *)

\* lines 522-524 behind the permission check: the handler is entered only
\* for one of the three statuses, the other outcomes need no statement.
partial_update_enter(p, caller, request_id, status_) ==
    /\ calls[p].pc = "idle"
    /\ IF ~RequestPermission_has_permission(caller, "partial_update")
       THEN Denied(caller) /\ UNCHANGED calls
       ELSE IF status_ \notin {ISSUED, REJECTED, RETURNED}
       THEN /\ BookRequestViewSet_partial_update(request_id, status_)
            /\ UNCHANGED calls
       ELSE /\ calls' = [calls EXCEPT ![p] =
                            [pc |-> "update", request_id |-> request_id,
                             status_ |-> status_, book |-> NoBook]]
            /\ UNCHANGED <<db, response>>

status_fields(status_) ==
    IF status_ = ISSUED THEN issue_fields
    ELSE IF status_ = RETURNED THEN return_fields
    ELSE reject_fields

status_delta(status_) == IF status_ = ISSUED THEN 0 - 1 ELSE 1

status_message(status_) ==
    IF status_ = ISSUED THEN "Book issued"
    ELSE IF status_ = RETURNED THEN "Request returned"
    ELSE "Request book rejected"

\* lines 527, 537, 547: BookRequest.objects.filter(pk=request_id).update(...);
\* the REJECTED branch returns right after it.
partial_update_update_request_and_inventory(p) ==
    /\ calls[p].pc = "update"
    /\ requests' = update_request(calls[p].request_id,
                                  status_fields(calls[p].status_))
    /\ inventory' =
          IF calls[p].request_id \in RequestIds /\ calls[p].status_ # REJECTED
          THEN update_inventory(requests[calls[p].request_id].book,
                                status_delta(calls[p].status_))
          ELSE inventory
    /\ IF calls[p].status_ = REJECTED
       THEN /\ response' = Response(status_message(REJECTED), 202)
            /\ calls' = [calls EXCEPT ![p].pc = "done"]
       ELSE /\ calls' = [calls EXCEPT ![p].pc = "get"]
            /\ UNCHANGED response
    /\ UNCHANGED <<user_role, role_rows, today>>

partial_update_update_request(p) ==
    /\ calls[p].pc = "update"
    /\ requests' = update_request(calls[p].request_id,
                                  status_fields(calls[p].status_))
    /\ IF calls[p].status_ = REJECTED
       THEN /\ response' = Response(status_message(REJECTED), 202)
            /\ calls' = [calls EXCEPT ![p].pc = "done"]
       ELSE /\ calls' = [calls EXCEPT ![p].pc = "get"]
            /\ UNCHANGED response
    /\ UNCHANGED <<user_role, role_rows, inventory, today>>

\* lines 531, 551: book = BookRequest.objects.get(pk=request_id).book, a Book
\* instance holding the row as it is read now.
partial_update_get_book(p) ==
    /\ calls[p].pc = "get"
    /\ IF calls[p].request_id \notin RequestIds
       THEN /\ response' = Response("server error", 500)
            /\ calls' = [calls EXCEPT ![p].pc = "failed"]
       ELSE /\ calls' = [calls EXCEPT
                   ![p].pc = "inventory",
                   ![p].book =
                       [id |-> requests[calls[p].request_id].book,
                        inventory |->
                            inventory[requests[calls[p].request_id].book]]]
            /\ UNCHANGED response
    /\ UNCHANGED db

\* F("inventory"): the column as the store holds it when the UPDATE runs
F_inventory_cached(book) == book.inventory

F_inventory(book) == inventory[book.id]

\* lines 532-534, 552-556:
\* Book.objects.filter(id=book.id).update(inventory=F("inventory") -/+ 1)
partial_update_update_inventory(p) ==
    /\ calls[p].pc = "inventory"
    /\ inventory' = [inventory EXCEPT ![calls[p].book.id] =
                        F_inventory(calls[p].book)
                        + status_delta(calls[p].status_)]
    /\ response' = Response(status_message(calls[p].status_), 202)
    /\ calls' = [calls EXCEPT ![p].pc = "done"]
    /\ UNCHANGED <<user_role, role_rows, requests, today>>

----------------------------------------------------------------------------
(* views.py: TicketViewSet, and the tasks that queue its mails *)

NoMessage == "None"       \* Python None: a key absent from request.data,
                          \* or the NULL of Ticket.response_message
\* the truth value Python gives a string or None
NonEmpty(v) == v \notin {NoMessage, ""}

Host == 0                 \* settings.EMAIL_HOST_USER

TicketIds == 1..Len(tickets)

\* send_ticket_mail: the arguments handed to send_mail_task.apply_async
ticket_mail(ticket) ==
    [subject |-> "Request to Add New Book to Library Collection",
     sender |-> ticket.user, recipient |-> Host]

\* send_update_status_mail
update_status_mail(ticket) ==
    [subject |-> "Request {ticket.status}",
     sender |-> Host, recipient |-> ticket.user]

new_ticket(user, request_message) ==
    [request_message |-> request_message, response_message |-> NoMessage,
     status |-> TicketStatus_PENDING, user |-> user]

empty_message_only(request_message) == request_message = NoMessage

\* `if not request.data.get("request_message")`
no_request_message(request_message) == ~NonEmpty(request_message)

\* The handler body; `dispatched` tells whether apply_async queued the mail
\* or raised (the broker cannot be reached).
TicketViewSet_create(user, request_message, dispatched) ==
    IF no_request_message(request_message)
    THEN /\ response' = Response("Request message should not be null", 403)
         /\ UNCHANGED <<db, ticket_vars>>
    ELSE IF ~dispatched                    \* send_ticket_mail raises
    THEN ServerError /\ UNCHANGED ticket_vars
    ELSE /\ response' = Response("Ticket generated", 201)
         /\ mails' = Append(mails, ticket_mail(new_ticket(user, request_message)))
         /\ tickets' = Append(tickets, new_ticket(user, request_message))
         /\ UNCHANGED db

librarian_sets_status_any_role(user, status) == NonEmpty(status)

\* `if data.get("status") and user.has_role(Roles.LIBRARIAN)`
librarian_sets_status(user, status) ==
    NonEmpty(status) /\ has_role(user, Roles_LIBRARIAN)

\* `if data.get("request_message") and user.has_role(Roles.USER)`
user_sets_message(user, request_message) ==
    NonEmpty(request_message) /\ has_role(user, Roles_USER)

\* The handler body: the ticket is fetched by pk alone.
TicketViewSet_partial_update(user, ticket_id, status, response_message, request_message, dispatched) ==
    IF ticket_id \notin TicketIds         \* Ticket.objects.get raises
    THEN ServerError /\ UNCHANGED ticket_vars
    ELSE IF librarian_sets_status(user, status)
    THEN IF response_message = NoMessage  \* data["response_message"] raises
         THEN ServerError /\ UNCHANGED ticket_vars
         ELSE /\ tickets' = [tickets EXCEPT
                     ![ticket_id].status = status,
                     ![ticket_id].response_message = response_message]
              /\ IF dispatched
                 THEN /\ response' = Response("Response sent", 202)
                      /\ mails' = Append(mails,
                                         update_status_mail(tickets'[ticket_id]))
                 ELSE /\ response' = Response("server error", 500)
                      /\ UNCHANGED mails  \* send_update_status_mail raises
              /\ UNCHANGED db
    ELSE IF user_sets_message(user, request_message)
    THEN /\ response' = Response("Ticket message updated", 202)
         /\ tickets' = [tickets EXCEPT
                           ![ticket_id].request_message = request_message]
         /\ UNCHANGED <<db, mails>>
    ELSE /\ response' =
               Response("You are not authorized to update that field", 403)
         /\ UNCHANGED <<db, ticket_vars>>

\* permission_classes = [RequestPermission] before the handler
SubmitTicketCall(caller, request_message, dispatched) ==
    IF ~RequestPermission_has_permission(caller, "create")
    THEN Denied(caller) /\ UNCHANGED ticket_vars
    ELSE TicketViewSet_create(caller, request_message, dispatched)

UpdateTicketCall(caller, ticket_id, status, response_message, request_message, dispatched) ==
    IF ~RequestPermission_has_permission(caller, "partial_update")
    THEN Denied(caller) /\ UNCHANGED ticket_vars
    ELSE TicketViewSet_partial_update(caller, ticket_id, status,
                                      response_message, request_message,
                                      dispatched)

----------------------------------------------------------------------------
(* views.py: LibrarianViewSet and RoleViewSet, both behind IsAdmin *)

\* APIView.check_permissions: `if not permission.has_permission(request, self)`
IsAdmin_denies(user) == ~Truthy(IsAdmin_has_permission(user))

RolePks == {pk \in 1..Len(role_rows): role_rows[pk] # None}

\* `valid` is the verdict of UserSerializer on username, email and password;
\* the role list [Roles.LIBRARIAN] is valid when Role row 2 exists.
LibrarianViewSet_create(caller, valid) ==
    IF IsAdmin_denies(caller)
    THEN Denied(caller)
    ELSE IF ~valid \/ Roles_LIBRARIAN \notin RolePks
    THEN /\ response' = Response("invalid", 400)
         /\ UNCHANGED db
    ELSE /\ user_role' = Append(user_role, {Roles_LIBRARIAN})
         /\ response' = Response("Librarian added successfully", 201)
         /\ UNCHANGED <<role_rows, inventory, requests, today>>

\* CreateModelMixin.create with RoleSerializer
RoleViewSet_create(caller, role) ==
    IF IsAdmin_denies(caller)
    THEN Denied(caller)
    ELSE IF role \notin Roles
    THEN /\ response' = Response("invalid", 400)
         /\ UNCHANGED db
    ELSE /\ role_rows' = Append(role_rows, <<role>>)
         /\ response' = Response("created", 201)
         /\ UNCHANGED <<user_role, inventory, requests, today>>

\* DestroyModelMixin.destroy: the row goes, and with it its rows of User.role
RoleViewSet_destroy(caller, pk) ==
    IF IsAdmin_denies(caller)
    THEN Denied(caller)
    ELSE IF pk \notin RolePks
    THEN /\ response' = Response("not found", 404)
         /\ UNCHANGED db
    ELSE /\ role_rows' = [role_rows EXCEPT ![pk] = None]
         /\ user_role' = [u \in UserIds |-> user_role[u] \ {pk}]
         /\ response' = Response("", 204)
         /\ UNCHANGED <<inventory, requests, today>>

----------------------------------------------------------------------------
(* Specifications *)

StatusInputs == {ISSUED, REJECTED, RETURNED, PENDING, NoStatus}

\* The window inventory is kept in: the calls that would leave it are not made.
InStock(lowest, highest) == \A b \in Books: inventory'[b] \in lowest..highest

Init ==
    /\ user_role = InitUserRole
    /\ role_rows = InitRoleRows
    /\ inventory = [b \in Books |-> MaxStock]
    /\ requests = << >>
    /\ today = 1
    /\ response = NoCall
    /\ tickets = << >>
    /\ mails = << >>
    /\ calls = [p \in Procs |-> Idle]

\* Spec: a borrower (1), a librarian (3) and an anonymous caller, two books.
LoanCallers == {Anonymous, 1, 3}

RequestLoan ==
    \E caller \in LoanCallers, book_id \in BookInputs, dispatched \in BOOLEAN:
        /\ RequestLoanCall(caller, book_id, dispatched)
        /\ Len(requests') <= MaxRequests
        /\ UNCHANGED <<ticket_vars, calls>>

UpdateLoanStatus ==
    \E caller \in LoanCallers, request_id \in 1..(Len(requests) + 1),
       status_ \in StatusInputs:
        /\ UpdateLoanStatusCall(caller, request_id, status_)
        /\ InStock(0 - 1, MaxStock)
        /\ UNCHANGED <<ticket_vars, calls>>

Next == RequestLoan \/ UpdateLoanStatus

Spec == Init /\ [][Next]_vars

\* SpecLimit: the borrower piles up loans of one book, up to LoanLimit and
\* beyond; the librarian issues and takes back.
LimitCallers == {1, 3}
LimitStatusInputs == {ISSUED, RETURNED, PENDING}

LimitRequestLoan ==
    \E caller \in LimitCallers, dispatched \in BOOLEAN:
        /\ RequestLoanCall(caller, 1, dispatched)
        /\ Len(requests') <= LoanLimit + MaxExtraRequests
        /\ UNCHANGED <<ticket_vars, calls>>

LimitUpdateLoanStatus ==
    \E caller \in LimitCallers, request_id \in 1..(Len(requests) + 1),
       status_ \in LimitStatusInputs:
        /\ UpdateLoanStatusCall(caller, request_id, status_)
        /\ InStock(MaxStock - (LoanLimit + MaxExtraRequests), MaxStock + 1)
        /\ UNCHANGED <<ticket_vars, calls>>

NextLimit == LimitRequestLoan \/ LimitUpdateLoanStatus

SpecLimit == Init /\ [][NextLimit]_vars

\* SpecDates: the same two callers and one book, with the clock running.
DatedRequestLoan ==
    \E caller \in LimitCallers, dispatched \in BOOLEAN:
        /\ RequestLoanCall(caller, 1, dispatched)
        /\ Len(requests') <= MaxDatedRequests
        /\ UNCHANGED <<ticket_vars, calls>>

DatedUpdateLoanStatus ==
    \E caller \in LimitCallers, request_id \in 1..(Len(requests) + 1),
       status_ \in StatusInputs:
        /\ UpdateLoanStatusCall(caller, request_id, status_)
        /\ InStock(0 - 1, MaxStock + 1)
        /\ UNCHANGED <<ticket_vars, calls>>

Clock == today < MaxDay /\ Tick /\ UNCHANGED <<ticket_vars, calls>>

NextDates == DatedRequestLoan \/ DatedUpdateLoanStatus \/ Clock

SpecDates == Init /\ [][NextDates]_vars

\* SpecAdmin: every account and the anonymous caller at the Role and
\* Librarian endpoints.
RoleInputs == Roles \cup {0}

CreateLibrarian ==
    \E caller \in Callers, valid \in BOOLEAN:
        /\ LibrarianViewSet_create(caller, valid)
        /\ Len(user_role') <= Len(InitUserRole) + MaxNewRows
        /\ UNCHANGED <<ticket_vars, calls>>

CreateRole ==
    \E caller \in Callers, role \in RoleInputs:
        /\ RoleViewSet_create(caller, role)
        /\ Len(role_rows') <= Len(InitRoleRows) + MaxNewRows
        /\ UNCHANGED <<ticket_vars, calls>>

DestroyRole ==
    \E caller \in Callers, pk \in 1..(Len(role_rows) + 1):
        /\ RoleViewSet_destroy(caller, pk)
        /\ UNCHANGED <<ticket_vars, calls>>

NextAdmin == CreateLibrarian \/ CreateRole \/ DestroyRole

SpecAdmin == Init /\ [][NextAdmin]_vars

\* SpecTickets: every account and the anonymous caller at the Ticket endpoint.
MessageInputs == {NoMessage, "", "book A", "book B"}
NewMessageInputs == {NoMessage, "book B"}
ResponseInputs == {NoMessage, "ordered"}
\* no status, a status of the enumeration, and a string that is none
TicketStatusInputs == {NoStatus, TicketStatus_ACCEPTED, "closed"}

SubmitTicket ==
    \E caller \in Callers, request_message \in MessageInputs,
       dispatched \in BOOLEAN:
        /\ SubmitTicketCall(caller, request_message, dispatched)
        /\ Len(tickets') <= MaxTickets
        /\ Len(mails') <= MaxMails
        /\ UNCHANGED calls

UpdateTicket ==
    \E caller \in Callers, ticket_id \in 1..(Len(tickets) + 1),
       status \in TicketStatusInputs, response_message \in ResponseInputs,
       request_message \in NewMessageInputs, dispatched \in BOOLEAN:
        /\ UpdateTicketCall(caller, ticket_id, status, response_message,
                            request_message, dispatched)
        /\ Len(mails') <= MaxMails
        /\ UNCHANGED calls

NextTickets == SubmitTicket \/ UpdateTicket

SpecTickets == Init /\ [][NextTickets]_vars

\* SpecConc: the borrower asks for one book while up to MaxCalls
\* UpdateLoanStatus calls run statement by statement, each handler once.
ConcStatusInputs == {ISSUED, RETURNED, PENDING}

ConcRequestLoan ==
    /\ RequestLoanCall(1, 1, TRUE)
    /\ Len(requests') <= MaxConcRequests
    /\ UNCHANGED <<ticket_vars, calls>>

ConcEnter ==
    \E p \in Procs, caller \in LimitCallers,
       request_id \in 1..(Len(requests) + 1), status_ \in ConcStatusInputs:
        /\ partial_update_enter(p, caller, request_id, status_)
        /\ UNCHANGED ticket_vars

ConcUpdateRequest ==
    \E p \in Procs: partial_update_update_request(p) /\ UNCHANGED ticket_vars

ConcGetBook ==
    \E p \in Procs: partial_update_get_book(p) /\ UNCHANGED ticket_vars

ConcUpdateInventory ==
    \E p \in Procs: partial_update_update_inventory(p) /\ UNCHANGED ticket_vars

NextConc ==
    \/ ConcRequestLoan
    \/ ConcEnter
    \/ ConcUpdateRequest
    \/ ConcGetBook
    \/ ConcUpdateInventory

SpecConc == Init /\ [][NextConc]_vars

\* SpecStale: one UpdateLoanStatus call runs statement by statement while
\* the borrower keeps asking for the same book and the clock runs.
StaleRequestLoan ==
    /\ RequestLoanCall(1, 1, TRUE)
    /\ Len(requests') <= MaxStaleRequests
    /\ UNCHANGED <<ticket_vars, calls>>

StaleEnter ==
    \E caller \in LimitCallers, request_id \in 1..(Len(requests) + 1),
       status_ \in StatusInputs:
        /\ partial_update_enter(1, caller, request_id, status_)
        /\ UNCHANGED ticket_vars

StaleUpdateRequest ==
    partial_update_update_request(1) /\ UNCHANGED ticket_vars

StaleGetBook ==
    partial_update_get_book(1) /\ UNCHANGED ticket_vars

StaleUpdateInventory ==
    partial_update_update_inventory(1) /\ UNCHANGED ticket_vars

NextStale ==
    \/ StaleRequestLoan
    \/ StaleEnter
    \/ StaleUpdateRequest
    \/ StaleGetBook
    \/ StaleUpdateInventory
    \/ Clock

SpecStale == Init /\ [][NextStale]_vars

----------------------------------------------------------------------------
(* Properties *)

IssuedCount(user) == Cardinality(user_issued_books(user))
UpdateStatuses == {ISSUED, REJECTED, RETURNED}
LegalTransitions == {<<PENDING, ISSUED>>, <<PENDING, REJECTED>>, <<ISSUED, RETURNED>>}
InventoryDelta(status_) ==
    IF status_ = ISSUED THEN 0 - 1 ELSE IF status_ = RETURNED THEN 1 ELSE 0
HoldsOnly(user, role) == is_authenticated(user) /\ user_role[user] = {role}
IsAdminCaller(user) == is_authenticated(user) /\ has_role(user, Roles_ADMIN)

\* C1: after any sequence of RequestLoan and UpdateLoanStatus calls, every
\* book's inventory is >= 0.
C1_InventoryNeverNegative == \A b \in Books: inventory[b] >= 0

\* C2: no user ever owns more than 3 BookRequests whose status is ISSUED.
C2_AtMostThreeIssued == \A u \in UserIds: IssuedCount(u) <= LoanLimit

\* C3: a BookRequest's status changes only PENDING -> ISSUED,
\* PENDING -> REJECTED or ISSUED -> RETURNED.
C3_StatusTransitions ==
    [][\A i \in RequestIds:
          requests'[i].status # requests[i].status
          => <<requests[i].status, requests'[i].status>> \in LegalTransitions]_vars

\* C4: an UpdateLoanStatus call by a caller holding only the USER role moves
\* no BookRequest to ISSUED and changes no inventory.
C4_UserCannotIssue ==
    [][\A c \in UserIds, id \in 1..(Len(requests) + 1), s \in StatusInputs:
          (HoldsOnly(c, Roles_USER) /\ UpdateLoanStatusCall(c, id, s))
          => /\ inventory' = inventory
             /\ \A i \in RequestIds:
                   requests'[i].status = ISSUED => requests[i].status = ISSUED]_vars

\* C5: a Role or Librarian management call by a caller without the ADMIN
\* role (anonymous callers included) is denied and changes nothing.
C5_OnlyAdminManages ==
    [][\A c \in Callers:
          (~IsAdminCaller(c)
           /\ \/ \E valid \in BOOLEAN: LibrarianViewSet_create(c, valid)
              \/ \E role \in RoleInputs: RoleViewSet_create(c, role)
              \/ \E pk \in 1..(Len(role_rows) + 1): RoleViewSet_destroy(c, pk))
          => /\ response'.msg = "permission denied"
             /\ user_role' = user_role
             /\ role_rows' = role_rows]_vars

\* C6: a RequestLoan for an existing book by a user who owns 3 or more
\* ISSUED BookRequests is answered 403 and creates no BookRequest, whatever
\* the book's inventory; and whenever a RequestLoan is accepted the caller's
\* ISSUED count at that moment is at most 3.
C6_LimitRejects ==
    [][\A c \in Callers:
          (IssuedCount(c) >= LoanLimit \/ response'.code = 201)
          => \A b \in Books, d \in BOOLEAN:
                RequestLoanCall(c, b, d)
                => /\ IssuedCount(c) >= LoanLimit
                      => /\ response'.code = 403
                         /\ requests' = requests
                         /\ inventory' = inventory
                   /\ response'.code = 201 => IssuedCount(c) <= LoanLimit]_vars

\* a RequestLoan has just been refused for the limit, while the book it
\* could have asked for is in stock
C6_Witness ==
    /\ response = Response("You have already requested 3 books", 403)
    /\ \E u \in UserIds: IssuedCount(u) >= LoanLimit
    /\ inventory[1] > 0

\* C7: a RequestLoan for a book whose inventory is 0 or less is answered with
\* an error whatever the caller's roles, creates no BookRequest and changes
\* no inventory.
C7_OutOfStockRejects ==
    [][\A b \in Books:
          inventory[b] <= 0
          => \/ /\ response'.code \in {401, 403}
                /\ requests' = requests
                /\ inventory' = inventory
             \/ \A c \in Callers, d \in BOOLEAN:
                   ~RequestLoanCall(c, b, d)]_vars

\* a RequestLoan has just been refused for a book that an issue emptied
C7_Witness ==
    /\ response = Response("The book is not available", 403)
    /\ \E i \in RequestIds:
          requests[i].status = ISSUED /\ inventory[requests[i].book] = 0

\* C8: an accepted RequestLoan appends exactly one BookRequest, owned by the
\* caller, for the requested book, PENDING with issued_date and returned_date
\* unset, and leaves every inventory and every existing BookRequest unchanged.
C8_CreateEffect ==
    [][response'.code = 201
       => \A c \in Callers, b \in BookInputs, d \in BOOLEAN:
             RequestLoanCall(c, b, d)
             => /\ Len(requests') = Len(requests) + 1
                /\ SubSeq(requests', 1, Len(requests)) = requests
                /\ requests'[Len(requests')].user = c
                /\ requests'[Len(requests')].book = b
                /\ requests'[Len(requests')].status = PENDING
                /\ requests'[Len(requests')].issued_date = None
                /\ requests'[Len(requests')].returned_date = None
                /\ inventory' = inventory]_vars

\* a RequestLoan has just been accepted beside an earlier request that was
\* issued, with the stock that issue left
C8_Witness ==
    /\ response.code = 201
    /\ Len(requests) >= 2
    /\ requests[Len(requests)].status = PENDING
    /\ requests[1].status = ISSUED
    /\ \E b \in Books: inventory[b] # MaxStock

\* C9: a completed UpdateLoanStatus on an existing request changes the
\* inventory of the request's book by -1 (ISSUED), +1 (RETURNED) or 0
\* (REJECTED) and the inventory of no other book.
C9_InventoryDelta ==
    [][response'.code = 202
       => \A id \in RequestIds, s \in UpdateStatuses:
             \/ inventory' =
                   [b \in Books |->
                       IF b = requests[id].book
                       THEN inventory[b] + InventoryDelta(s)
                       ELSE inventory[b]]
             \/ ~BookRequestViewSet_partial_update(id, s)]_vars

\* an issued request has just been returned: its book is back at the
\* starting stock while the other book's stock differs
C9_Witness ==
    /\ response = Response("Request returned", 202)
    /\ \E i \in RequestIds:
          /\ requests[i].status = RETURNED
          /\ requests[i].issued_date # None
          /\ inventory[requests[i].book] = MaxStock
          /\ \E b \in Books: inventory[b] # MaxStock

C11_InvalidStatusNoEffect ==
    [][\/ /\ response'.code \in {401, 403}
          /\ requests' = requests
          /\ inventory' = inventory
       \/ \A c \in Callers, id \in 1..(Len(requests) + 1),
             s \in {PENDING, NoStatus}:
             ~UpdateLoanStatusCall(c, id, s)]_vars

\* an invalid status has just been refused while an issued request and the
\* stock it took were there to change
C11_Witness ==
    /\ response = Response("Request status is not valid", 403)
    /\ \E i \in RequestIds:
          /\ requests[i].status = ISSUED
          /\ inventory[requests[i].book] = MaxStock - 1

\* C12: once a BookRequest's issued_date is set no later call writes it
\* again, and the same for its returned_date.
C12_DatesWrittenOnce ==
    [][\A i \in RequestIds:
          /\ requests[i].issued_date # None
             => requests'[i].issued_date = requests[i].issued_date
          /\ requests[i].returned_date # None
             => requests'[i].returned_date = requests[i].returned_date]_vars

\* the calls for status s whose inventory statement on book b has run
Completed(b, s) ==
    Cardinality({p \in Procs: /\ calls[p].pc = "done"
                              /\ calls[p].status_ = s
                              /\ calls[p].book.id = b})

NoneInProgress == \A p \in Procs: calls[p].pc \in {"idle", "done", "failed"}

\* C13: when the n UpdateLoanStatus(ISSUED) and m UpdateLoanStatus(RETURNED)
\* calls on requests for a book have all completed, in whatever order their
\* statements interleaved, the book's inventory is its initial value - n + m.
C13_NoLostUpdate ==
    NoneInProgress
    => \A b \in Books:
          inventory[b] =
              MaxStock - Completed(b, ISSUED) + Completed(b, RETURNED)

\* two ISSUED calls for the same book have completed, each having read the
\* book at the initial stock before the other wrote it
C13_Witness ==
    /\ NoneInProgress
    /\ \E p, q \in Procs:
          /\ p # q
          /\ calls[p].pc = "done" /\ calls[q].pc = "done"
          /\ calls[p].status_ = ISSUED /\ calls[q].status_ = ISSUED
          /\ calls[p].book = [id |-> 1, inventory |-> MaxStock]
          /\ calls[q].book = [id |-> 1, inventory |-> MaxStock]
          /\ inventory[1] = MaxStock - 2

ValidMessages == {m \in MessageInputs: NonEmpty(m)}

\* C14: a SubmitTicket or RequestLoan that passes every validation persists
\* its Ticket / BookRequest and returns success whether or not the
\* notification is dispatched.
C14_NotifierNeverBlocks ==
    [][\A c \in UserIds, d \in BOOLEAN:
          has_role(c, Roles_USER)
          => /\ \A m \in ValidMessages:
                   SubmitTicketCall(c, m, d)
                   => /\ response'.code = 201
                      /\ Len(tickets') = Len(tickets) + 1
             /\ \A b \in Books:
                   (~over_limit(c) /\ ~not_available(b)
                    /\ RequestLoanCall(c, b, d))
                   => /\ response'.code = 201
                      /\ Len(requests') = Len(requests) + 1]_vars

WithoutLibrarian(c) == ~(is_authenticated(c) /\ has_role(c, Roles_LIBRARIAN))
SuppliedStatuses == {st \in TicketStatusInputs: NonEmpty(st)}

\* C16 as stated: an UpdateTicket that supplies a status, by a caller who
\* does not hold LIBRARIAN, is answered with an authorization error whatever
\* else it supplies, and leaves the ticket's status and response_message
\* unchanged.
C16_StatusNeedsLibrarian ==
    [][\A c \in Callers, id \in TicketIds, st \in SuppliedStatuses,
          rm \in ResponseInputs, m \in NewMessageInputs, d \in BOOLEAN:
          (WithoutLibrarian(c) /\ UpdateTicketCall(c, id, st, rm, m, d))
          => /\ response'.code \in {401, 403}
             /\ tickets'[id].status = tickets[id].status
             /\ tickets'[id].response_message
                    = tickets[id].response_message]_vars

\* C16 amended: such a call never changes the status or the
\* response_message of any ticket; it is answered with an authorization
\* error and changes nothing, except when the caller holds USER and also
\* supplies a non-empty request_message: then the status is ignored, the
\* ticket's request_message is replaced and the call is accepted.
C16_StatusIgnoredForUser ==
    [][\A c \in Callers, id \in TicketIds, m \in NewMessageInputs:
          WithoutLibrarian(c)
          => \/ IF is_authenticated(c) /\ has_role(c, Roles_USER)
                   /\ NonEmpty(m)
                THEN /\ response' = Response("Ticket message updated", 202)
                     /\ tickets' =
                           [tickets EXCEPT ![id].request_message = m]
                ELSE /\ response'.code \in {401, 403}
                     /\ tickets' = tickets
             \/ \A st \in SuppliedStatuses, rm \in ResponseInputs,
                   d \in BOOLEAN:
                   ~UpdateTicketCall(c, id, st, rm, m, d)]_vars

\* a status has just been refused on a ticket the librarian had resolved
C16_Witness ==
    /\ response = Response("You are not authorized to update that field", 403)
    /\ \E i \in TicketIds:
          /\ tickets[i].status = TicketStatus_ACCEPTED
          /\ tickets[i].response_message = "ordered"

\* C17: a Ticket's status is always PENDING, ACCEPTED or REJECTED, and it
\* changes only from PENDING to ACCEPTED or to REJECTED.
C17_TicketTransitions ==
    [][\A i \in TicketIds:
          /\ tickets'[i].status \in TicketStatus
          /\ tickets'[i].status # tickets[i].status
             => /\ tickets[i].status = TicketStatus_PENDING
                /\ tickets'[i].status
                      \in {TicketStatus_ACCEPTED, TicketStatus_REJECTED}]_vars

\* the BookRequests for book b that are ISSUED
IssuedOf(b) ==
    Cardinality({i \in RequestIds: requests[i].book = b
                                   /\ requests[i].status = ISSUED})

\* C18: whenever no UpdateLoanStatus call is in progress, every book's
\* inventory plus the number of its ISSUED BookRequests is its initial
\* inventory.
C18_InventoryPlusIssued ==
    NoneInProgress => \A b \in Books: inventory[b] + IssuedOf(b) = MaxStock

\* C20: an UpdateLoanStatus or UpdateTicket call by a caller holding only
\* the USER role, naming a BookRequest or Ticket of another user, changes
\* nothing in that record.
C20_PatchOnlyOwn ==
    [][\A c \in UserIds:
          HoldsOnly(c, Roles_USER)
          => /\ \A id \in TicketIds, st \in TicketStatusInputs,
                   rm \in ResponseInputs, m \in NewMessageInputs,
                   d \in BOOLEAN:
                   (tickets[id].user # c
                    /\ UpdateTicketCall(c, id, st, rm, m, d))
                   => tickets'[id] = tickets[id]
             /\ \A id \in RequestIds, s \in StatusInputs:
                   (requests[id].user # c /\ UpdateLoanStatusCall(c, id, s))
                   => requests'[id] = requests[id]]_vars

\* the handler has written the status and not yet the inventory
BetweenWrites(p) ==
    /\ calls[p].pc \in {"get", "inventory"}
    /\ calls[p].request_id \in RequestIds

\* C19: UpdateLoanStatus writes the status and the inventory in two separate
\* steps: the step that writes the status leaves every inventory as it was,
\* and for as long as the one call of SpecStale is between the two writes
\* every book still has the inventory it had before the call, a state the
\* other request handlers run in.
C19_StatusBeforeInventory ==
    [][\A p \in Procs:
          /\ (calls[p].pc = "update" /\ calls'[p].pc = "get")
             => /\ inventory' = inventory
                /\ calls[p].request_id \in RequestIds
                   => requests'[calls[p].request_id].status = calls[p].status_
          /\ calls'[p].pc \in {"get", "inventory"}
             => \A b \in Books: inventory'[b] = MaxStock]_vars

\* a RequestLoan for the last copy of the book has just been accepted on
\* day 2, while the call that issued that copy on day 1 has yet to take it
\* off the inventory
C19_Witness ==
    /\ response.code = 201
    /\ \E p \in Procs:
          /\ BetweenWrites(p)
          /\ calls[p].status_ = ISSUED
          /\ requests[calls[p].request_id].status = ISSUED
          /\ requests[calls[p].request_id].issued_date = Date(1)
          /\ inventory[requests[calls[p].request_id].book] - 1 <= 0
          /\ \E j \in RequestIds:
                /\ requests[j].book = requests[calls[p].request_id].book
                /\ requests[j].status = PENDING
                /\ requests[j].requested_date = Date(2)

====
